---------------------------- MODULE Spec2Model ----------------------------
(***************************************************************************)
(* A model of the 2D wave-equation solver of src/Wave2D.py (classes Wave2D *)
(* and Wave2D_Neumann), of its convergence driver, and of the snapshot     *)
(* check made by the movie scripts.                                        *)
(*                                                                         *)
(* Numbers.  The program computes with floats.  Here a real value v is the *)
(* integer v * Scale (fixed point), products and quotients are rescaled    *)
(* and rounded down, sqrt is the integer square root, and sin/cos are the  *)
(* rational approximations of Bhaskara, which are exact at the multiples   *)
(* of pi/2.  Angles are carried in units of pi, so that sin(m*pi*x) is     *)
(* SinPi(m*x).  Arithmetic is that of exact reals otherwise: IEEE round-   *)
(* off (sin(fl(2*pi)) = -2.4e-16 rather than 0) is below the resolution.   *)
(*                                                                         *)
(* Arrays.  A 2D array is a sequence of rows, a[i][j] with i, j in         *)
(* 1..N+1 standing for the program's a[i-1, j-1].  A sparse matrix is a    *)
(* sequence of rows, each a function from the columns it stores to their   *)
(* values (compressed rows, as scipy's csr format).                        *)
(***************************************************************************)
EXTENDS Integers, Sequences, FiniteSets, TLC

VARIABLES
    variant,   \* the class of the solver instance: "Dirichlet" or "Neumann"
    self,      \* the attributes of the solver instance
    pc,        \* where the instance's __call__ stands
    frame,     \* the arguments and locals of the current (or last) __call__
    result,    \* what the last __call__ returned or raised
    movie,     \* what a movie script's main made of the returned value
    conv,      \* the arguments and locals of convergence_rates
    calls      \* how many calls the instance has begun: 0, 1, or 2 for more

vars == <<variant, self, pc, frame, result, movie, conv, calls>>

---------------------------------------------------------------------------
(* Bounds of the model and the resolution of its numbers.                  *)

Scale == 1000
MaxN == 3
MaxNt == 3
MaxStore == 2
MaxLevels == 2

\* N0 = 8, the driver's coarsest resolution
N0 == 8

\* The inputs a call is tried with.  cfl = 0.5 and c = 1.0 are the defaults
\* of __call__, cfl = 0.1 that of the driver; (2, 3) are the modes of the
\* tests and of the movies.  A call with a resolution or a step count the
\* spec calls invalid is tried with one cfl and one pair of modes.
CflSet == {Scale \div 2}
ConvCflSet == {Scale \div 10, Scale \div 2}
ModeSet == {<<1, 1>>, <<2, 3>>}
StoreSet == {-2, -1, 0} \cup (1..MaxStore)

Args(N, Nt, cfl, c, mx, my, store_data) ==
    [N |-> N, Nt |-> Nt, cfl |-> cfl, c |-> c, mx |-> mx, my |-> my,
     store_data |-> store_data]

ValidArgs ==
    {Args(N, Nt, cfl, Scale, mode[1], mode[2], sd) :
        N \in 1..MaxN, Nt \in 1..MaxNt, cfl \in CflSet, mode \in ModeSet, sd \in StoreSet}

InvalidArgs ==
    {Args(a[1], a[2], Scale \div 2, Scale, 1, 1, sd) :
        a \in ({-2, -1, 0} \X {0, 1}) \cup ({1, 2} \X {0}), sd \in {-1, 1}}

ArgSet == ValidArgs \cup InvalidArgs

---------------------------------------------------------------------------
(* Arithmetic.                                                             *)

Abs(a) == IF a < 0 THEN -a ELSE a

Min(a, b) == IF a < b THEN a ELSE b

Mul(a, b) == (a * b) \div Scale

Div(a, b) == (a * Scale) \div b

RECURSIVE SqrtSearch(_, _, _)
SqrtSearch(x, lo, hi) ==
    \* the largest r in lo..hi-1 with r*r <= x, given lo*lo <= x < hi*hi
    IF hi - lo <= 1 THEN lo
    ELSE LET mid == (lo + hi) \div 2
         IN  IF mid * mid <= x THEN SqrtSearch(x, mid, hi)
                               ELSE SqrtSearch(x, lo, mid)

\* The integer square root; of a value at scale Scale*Scale it is the square
\* root at scale Scale
ISqrt(x) == SqrtSearch(x, 0, Min(x, 46339) + 1)

\* cos(pi * a / Scale) for 0 <= 2a <= Scale
CosCore(a) == (Scale * Scale - 4 * a * a) \div ((Scale * Scale + a * a) \div Scale)

CosPi(a) ==
    LET r == Abs(a) % (2 * Scale)
        s == IF r > Scale THEN 2 * Scale - r ELSE r
    IN  IF 2 * s <= Scale THEN CosCore(s) ELSE -CosCore(Scale - s)

\* sin(pi * a / Scale) for 0 <= a <= Scale
SinCore(a) ==
    (16 * a * (Scale - a)) \div ((5 * Scale * Scale - 4 * a * (Scale - a)) \div Scale)

SinPi(a) ==
    LET r == Abs(a) % (2 * Scale)
        v == IF r <= Scale THEN SinCore(r) ELSE -SinCore(r - Scale)
    IN  IF a < 0 THEN -v ELSE v

RECURSIVE SumSeq(_, _)
SumSeq(s, k) == IF k = 0 THEN 0 ELSE s[k] + SumSeq(s, k - 1)

\* the sum of all entries of a 2D array
SumAll(a) == SumSeq([i \in 1..Len(a) |-> SumSeq(a[i], Len(a[i]))], Len(a))

Size(a) == SumSeq([i \in 1..Len(a) |-> Len(a[i])], Len(a))

---------------------------------------------------------------------------
(* Wave2D: mesh, operator, exact solution.                                 *)

\* np.linspace(0.0, 1.0, N+1): the points (i-1)/N
linspace(N) == [i \in 1..(N + 1) |-> IF N = 0 THEN 0 ELSE ((i - 1) * Scale) \div N]

create_mesh(s, N) ==
    LET x == linspace(N)
        y == linspace(N)
    IN  [s EXCEPT !.dx = Scale \div N,
                  !.dy = Scale \div N,
                  !.xij = [i \in 1..Len(x) |-> [j \in 1..Len(y) |-> x[i]]],
                  !.yij = [i \in 1..Len(x) |-> [j \in 1..Len(y) |-> y[j]]]]

\* Dx2 without the reflected rows of the Neumann variant
Dx2_plain(v, N, k, l) ==
    IF k = l THEN -2 ELSE IF Abs(k - l) = 1 THEN 1 ELSE 0

\* The 1D second-difference matrix, entry [k, l] (1-based)
Dx2(v, N, k, l) ==
    IF v = "Neumann" /\ k = 1 /\ l = 2 THEN 2
    ELSE IF v = "Neumann" /\ k = N + 1 /\ l = N THEN 2
    ELSE IF k = l THEN -2
    ELSE IF Abs(k - l) = 1 THEN 1
    ELSE 0

\* sparse.kron(I, Dx2) + sparse.kron(Dx2, I), entry [p, q] (1-based), with
\* p = (i-1)(N+1) + k and q = (j-1)(N+1) + l
KronSum(v, N, p, q) ==
    LET i == ((p - 1) \div (N + 1)) + 1
        k == ((p - 1) % (N + 1)) + 1
        j == ((q - 1) \div (N + 1)) + 1
        l == ((q - 1) % (N + 1)) + 1
    IN  (IF i = j THEN Dx2(v, N, k, l) ELSE 0) + (IF k = l THEN Dx2(v, N, i, j) ELSE 0)

D2(v, N) ==
    LET M == (N + 1) * (N + 1)
    IN  [p \in 1..M |->
            LET near == {p, p - 1, p + 1, p - (N + 1), p + (N + 1)} \cap (1..M)
                cols == {q \in near : KronSum(v, N, p, q) # 0}
            IN  [q \in cols |-> KronSum(v, N, p, q)]]

\* The dispersion coefficient c*pi*sqrt(mx^2 + my^2), in units of pi
w(s) == Mul(s.c, ISqrt((s.mx * s.mx + s.my * s.my) * Scale * Scale))

\* The time step
dt(s) == Div(Mul(s.cfl, Min(s.dx, s.dy)), s.c)

\* The exact standing wave as an expression in x, y, t: its shape and the
\* numbers it closes over (w is evaluated when the expression is built)
ue(v, s, mx, my) ==
    [trig |-> IF v = "Neumann" THEN "cos" ELSE "sin", mx |-> mx, my |-> my, w |-> w(s)]

\* sp.lambdify((x, y, t), expr)(xij, yij, t0)
ue_fun(e, xij, yij, t0) ==
    [i \in 1..Len(xij) |-> [j \in 1..Len(xij[i]) |->
        LET fx == IF e.trig = "sin" THEN SinPi(e.mx * xij[i][j]) ELSE CosPi(e.mx * xij[i][j])
            fy == IF e.trig = "sin" THEN SinPi(e.my * yij[i][j]) ELSE CosPi(e.my * yij[i][j])
        IN  Mul(Mul(fx, fy), CosPi(Mul(e.w, t0)))]]

\* initialize building the exact solution before it stores mx and my
initialize_late_modes(v, s, N, mx, my) ==
    LET s1 == create_mesh(s, N)
        e  == ue(v, s1, mx, my)
        s2 == [s1 EXCEPT !.mx = mx, !.my = my]
        s3 == [s2 EXCEPT !.unm1 = ue_fun(e, s2.xij, s2.yij, -dt(s2))]
    IN  [s3 EXCEPT !.un = ue_fun(e, s3.xij, s3.yij, 0)]

initialize(v, s, N, mx, my) ==
    LET s1 == create_mesh(s, N)
        s2 == [s1 EXCEPT !.mx = mx, !.my = my]
        e  == ue(v, s2, mx, my)
        s3 == [s2 EXCEPT !.unm1 = ue_fun(e, s2.xij, s2.yij, -dt(s2))]
    IN  [s3 EXCEPT !.un = ue_fun(e, s3.xij, s3.yij, 0)]

\* np.sqrt(np.mean((u - ue_vals)**2))
l2_error(v, s, u, t0) ==
    LET ue_vals == ue_fun(ue(v, s, s.mx, s.my), s.xij, s.yij, t0)
        sq == [i \in 1..Len(u) |-> [j \in 1..Len(u[i]) |->
                 (u[i][j] - ue_vals[i][j]) * (u[i][j] - ue_vals[i][j])]]
    IN  ISqrt(SumAll(sq) \div Size(sq))

\* apply_bcs leaving the last column as it is
apply_bcs_three_edges(v, u) ==
    IF v = "Neumann" THEN u
    ELSE [i \in 1..Len(u) |-> [j \in 1..Len(u[i]) |->
            IF i = 1 \/ i = Len(u) \/ j = 1 THEN 0 ELSE u[i][j]]]

apply_bcs(v, u) ==
    IF v = "Neumann" THEN u
    ELSE [i \in 1..Len(u) |-> [j \in 1..Len(u[i]) |->
            IF i = 1 \/ i = Len(u) \/ j = 1 \/ j = Len(u[i]) THEN 0 ELSE u[i][j]]]

---------------------------------------------------------------------------
(* Wave2D.__call__.                                                        *)

\* un.reshape(-1)
Flatten(u) ==
    LET n == Len(u)
    IN  [p \in 1..(n * n) |-> u[((p - 1) \div n) + 1][((p - 1) % n) + 1]]

\* x.reshape(shape)
Reshape(x, n) == [i \in 1..n |-> [j \in 1..n |-> x[(i - 1) * n + j]]]

RECURSIVE RowDot(_, _, _)
RowDot(row, cols, x) ==
    IF cols = {} THEN 0
    ELSE LET q == CHOOSE c \in cols : TRUE
         IN  row[q] * x[q] + RowDot(row, cols \ {q}, x)

\* D @ x
MatVec(D, x) == [p \in 1..Len(D) |-> RowDot(D[p], DOMAIN D[p], x)]

\* data = {} if (store_data and store_data > 0) else None
WantsData(store_data) == store_data # 0 /\ store_data > 0

\* errs = [] for every negative store_data
WantsErrs_negative(store_data) == store_data < 0

\* errs = [] if store_data == -1 else None
WantsErrs(store_data) == store_data = -1

\* the step before a multiple of store_data
StoreNow_early(n, store_data) == (n + 1) % store_data = 0

\* n % store_data == 0
StoreNow(n, store_data) == n % store_data = 0

\* The field that goes under key 0
FirstSnapshot(s) == s.unm1

\* the time of the step before
ErrTime_previous(s, n) == (n - 1) * dt(s)

\* The time an error is measured at after step n
ErrTime(s, n) == n * dt(s)

---------------------------------------------------------------------------
(* The states of a call.                                                   *)

NoSelf ==
    [cfl |-> 0, c |-> 0, dx |-> 0, dy |-> 0, xij |-> <<>>, yij |-> <<>>,
     mx |-> 0, my |-> 0, unm1 |-> <<>>, un |-> <<>>, unp1 |-> <<>>]

NoFrame ==
    [N |-> 0, Nt |-> 0, cfl |-> 0, c |-> 0, mx |-> 0, my |-> 0, store_data |-> 0,
     D |-> <<>>, C |-> 0, hasData |-> FALSE, data |-> <<>>,
     hasErrs |-> FALSE, errs |-> <<>>, n |-> 0]

NoResult ==
    [kind |-> "none", data |-> <<>>, h |-> 0, hasErrs |-> FALSE, errs |-> <<>>, exc |-> ""]

Raised(exc) == [NoResult EXCEPT !.kind = "raise", !.exc = exc]

NoMovie == [status |-> "none", steps |-> <<>>]

NoConv ==
    [at |-> "none", given |-> [m |-> 0, Nt |-> 0], m |-> 0, stop |-> 0, i |-> 0,
     cfl |-> 0, Nt |-> 0, mx |-> 0, my |-> 0, N0 |-> 0,
     E |-> <<>>, h |-> <<>>, r |-> <<>>]

\* What create_mesh raises for this N, "" if nothing: np.linspace refuses a
\* negative number of samples, 1.0 / N a zero N
create_mesh_raises(N) ==
    IF N + 1 < 0 THEN "ValueError" ELSE IF N = 0 THEN "ZeroDivisionError" ELSE ""

\* D2 accepting every N
D2_raises_never(N) == ""

\* What D2 raises for this N: sparse.diags refuses the offsets -1 and 1 of an
\* empty matrix
D2_raises(N) == IF N + 1 = 0 THEN "ValueError" ELSE ""

\* Lines 103-111: the call up to its loop, on an instance whose attributes
\* are s.  The call's arguments stay in the frame.
call_enter(v, s, a) ==
    LET s0 == [s EXCEPT !.cfl = a.cfl, !.c = a.c]
        args == [NoFrame EXCEPT !.N = a.N, !.Nt = a.Nt, !.cfl = a.cfl, !.c = a.c,
                                !.mx = a.mx, !.my = a.my, !.store_data = a.store_data]
    IN  IF create_mesh_raises(a.N) # "" THEN
            [self |-> s0, frame |-> args, pc |-> "raised",
             result |-> Raised(create_mesh_raises(a.N))]
        ELSE LET s1 == initialize(v, s0, a.N, a.mx, a.my) IN
            IF D2_raises(a.N) # "" THEN
                [self |-> s1, frame |-> args, pc |-> "raised",
                 result |-> Raised(D2_raises(a.N))]
            ELSE
                [self |-> s1,
                 frame |-> [args EXCEPT
                    !.D = D2(v, a.N),
                    !.C = s1.cfl,
                    !.hasData = WantsData(a.store_data),
                    !.data = IF WantsData(a.store_data)
                             THEN (0 :> FirstSnapshot(s1)) ELSE <<>>,
                    !.hasErrs = WantsErrs(a.store_data)],
                 pc |-> "loop",
                 result |-> NoResult]

\* 2.0*un - unm1 + (C**2)*lap_un
Leapfrog(un, unm1, C, lap_un) ==
    [i \in 1..Len(un) |-> [j \in 1..Len(un[i]) |->
        2 * un[i][j] - unm1[i][j] + Mul(Mul(C, C), lap_un[i][j])]]

\* Lines 112-120: one iteration of the loop
call_step(v, s, f) ==
    LET n == f.n + 1
        lap_un == Reshape(MatVec(f.D, Flatten(s.un)), Len(s.un))
        s1 == [s EXCEPT !.unp1 = Leapfrog(s.un, s.unm1, f.C, lap_un)]
        s2 == [s1 EXCEPT !.unp1 = apply_bcs(v, s1.unp1)]
        s3 == [s2 EXCEPT !.unm1 = s2.un, !.un = s2.unp1]
    IN  [self |-> s3,
         frame |-> [f EXCEPT
            !.n = n,
            !.data = IF f.hasData /\ StoreNow(n, f.store_data)
                     THEN (n :> s3.un) @@ f.data ELSE f.data,
            !.errs = IF f.hasErrs
                     THEN Append(f.errs, l2_error(v, s3, s3.un, ErrTime(s3, n)))
                     ELSE f.errs]]

\* Lines 121-125: what the call returns
call_return(s, f) ==
    IF f.hasData
    THEN [NoResult EXCEPT !.kind = "dict", !.data = f.data]
    ELSE [NoResult EXCEPT !.kind = "tuple", !.h = s.dx,
                          !.hasErrs = f.hasErrs, !.errs = f.errs]

Enter(a) ==
    \E st \in {call_enter(variant, self, a)} :
        /\ self' = st.self
        /\ frame' = st.frame
        /\ pc' = st.pc
        /\ result' = st.result
        /\ calls' = IF calls = 0 THEN 1 ELSE 2

\* A caller invokes the solver, on a fresh instance or on one it has used
Call ==
    /\ pc = "idle"
    /\ conv.at = "none"
    /\ \E a \in ArgSet : Enter(a)
    /\ movie' = NoMovie
    /\ UNCHANGED <<variant, conv>>

Step ==
    /\ pc = "loop"
    /\ frame.n < frame.Nt
    /\ \E st \in {call_step(variant, self, frame)} :
           /\ self' = st.self
           /\ frame' = st.frame
    /\ UNCHANGED <<variant, pc, result, movie, conv, calls>>

Return ==
    /\ pc = "loop"
    /\ frame.n >= frame.Nt
    /\ pc' = "returned"
    /\ result' = call_return(self, frame)
    /\ UNCHANGED <<variant, self, frame, movie, conv, calls>>

\* The caller is done with what the call returned or raised: the frame and
\* the value are gone, the instance keeps its attributes
Drop ==
    /\ pc \in {"returned", "raised"}
    /\ conv.at = "none"
    /\ pc' = "idle"
    /\ frame' = NoFrame
    /\ result' = NoResult
    /\ movie' = NoMovie
    /\ UNCHANGED <<variant, self, conv, calls>>

---------------------------------------------------------------------------
(* The movie scripts' main: what it does with the value the solver returned *)

\* not isinstance(data, dict) or len(data) == 0
NoSnapshots(res) == res.kind # "dict" \/ Cardinality(DOMAIN res.data) = 0

RECURSIVE sorted(_)
sorted(keys) ==
    IF keys = {} THEN <<>>
    ELSE LET k == CHOOSE a \in keys : \A b \in keys : a <= b
         IN  <<k>> \o sorted(keys \ {k})

Consume ==
    /\ pc = "returned"
    /\ conv.at = "none"
    /\ movie.status = "none"
    /\ movie' = IF NoSnapshots(result)
                THEN [status |-> "RuntimeError", steps |-> <<>>]
                ELSE [status |-> "frames", steps |-> sorted(DOMAIN result.data)]
    /\ UNCHANGED <<variant, self, pc, frame, result, conv, calls>>

---------------------------------------------------------------------------
(* Wave2D.convergence_rates.                                               *)

\* the resolution left as it is
Refine_none(n0) == n0

\* N0 *= 2
Refine(n0) == n0 * 2

\* np.log(E[i-1]/E[i])/np.log(h[i-1]/h[i]), kept as the expression it is
Order(E0, E1, h0, h1) == [logratio |-> <<E0, E1>>, over |-> <<h0, h1>>]

\* Lines 148-150
ConvBegin ==
    /\ conv.at = "none"
    /\ pc = "idle"
    /\ \E m \in 0..MaxLevels, cfl \in ConvCflSet, Nt \in 0..MaxNt, mode \in ModeSet :
          conv' = [NoConv EXCEPT !.at = "loop", !.given = [m |-> m, Nt |-> Nt],
                                 !.m = m, !.stop = m, !.cfl = cfl, !.Nt = Nt,
                                 !.mx = mode[1], !.my = mode[2], !.N0 = N0]
    /\ UNCHANGED <<variant, self, pc, frame, result, movie, calls>>

\* Lines 151-152: the loop variable m takes the next value of range(m), and
\* the solver is called (c is left to its default, 1.0)
ConvCall ==
    /\ conv.at = "loop"
    /\ conv.i < conv.stop
    /\ conv' = [conv EXCEPT !.at = "calling", !.m = conv.i]
    /\ Enter(Args(conv.N0, conv.Nt, conv.cfl, Scale, conv.mx, conv.my, -1))
    /\ UNCHANGED <<variant, movie>>

\* Lines 152-156: the call has returned (dx, err)
ConvCollect ==
    /\ conv.at = "calling"
    /\ pc = "returned"
    /\ conv' = IF Len(result.errs) = 0
               THEN [conv EXCEPT !.at = "raised"]
               ELSE [conv EXCEPT !.at = "loop",
                                 !.E = Append(conv.E, result.errs[Len(result.errs)]),
                                 !.h = Append(conv.h, result.h),
                                 !.N0 = Refine(conv.N0),
                                 !.Nt = conv.Nt * 2,
                                 !.i = conv.i + 1]
    /\ UNCHANGED <<variant, self, pc, frame, result, movie, calls>>

\* Lines 157-158: range(m) is exhausted
ConvFinish ==
    /\ conv.at = "loop"
    /\ conv.i >= conv.stop
    /\ conv' = [conv EXCEPT
           !.at = "done",
           !.r = [i \in 1..conv.m |->
                    Order(conv.E[i], conv.E[i + 1], conv.h[i], conv.h[i + 1])]]
    /\ UNCHANGED <<variant, self, pc, frame, result, movie, calls>>

---------------------------------------------------------------------------
(* The specifications.                                                     *)

Init ==
    /\ variant \in {"Dirichlet", "Neumann"}
    /\ self = NoSelf
    /\ pc = "idle"
    /\ frame = NoFrame
    /\ result = NoResult
    /\ movie = NoMovie
    /\ conv = NoConv
    /\ calls = 0

\* Callers that invoke the solver directly and hand the result to a movie
Next == Call \/ Step \/ Return \/ Consume \/ Drop

Spec == Init /\ [][Next]_vars

\* The convergence study, run on a fresh instance as the tests do
NextConv == ConvBegin \/ ConvCall \/ Step \/ Return \/ ConvCollect \/ ConvFinish

SpecConv == Init /\ [][NextConv]_vars

---------------------------------------------------------------------------
(* What the claims speak of: a call on a fresh instance, the field after n *)
(* steps, the exact field, the symmetry of a matrix.                       *)

FrameArgs(f) == Args(f.N, f.Nt, f.cfl, f.c, f.mx, f.my, f.store_data)

RECURSIVE RunSteps(_, _, _)
RunSteps(v, st, k) ==
    IF k <= 0 THEN st
    ELSE RunSteps(v, call_step(v, st.self, st.frame) @@ st, k - 1)

\* A fresh instance after the first n steps of the call with arguments a
FreshAfter(v, a, n) == RunSteps(v, call_enter(v, NoSelf, a), n)

\* What the call with arguments a returns or raises on a fresh instance
FreshResult(v, a) ==
    LET st == call_enter(v, NoSelf, a)
    IN  IF st.pc = "raised" THEN st.result
        ELSE LET fin == RunSteps(v, st, a.Nt)
             IN  call_return(fin.self, fin.frame)

\* The solution field at time level n: U after n steps (U at t = 0 for n = 0)
FieldAtLevel(v, a, n) == FreshAfter(v, a, n).self.un

\* The exact standing wave on the mesh of resolution a.N at time n*dt, with
\* dt = cfl * min(dx, dy) / c and angular frequency c*pi*sqrt(mx^2 + my^2)
ExactField(v, a, n) ==
    LET h  == Scale \div a.N
        tn == n * Div(Mul(a.cfl, h), a.c)
        om == Mul(a.c, ISqrt((a.mx * a.mx + a.my * a.my) * Scale * Scale))
        T(z) == IF v = "Neumann" THEN CosPi(z) ELSE SinPi(z)
        X(i) == ((i - 1) * Scale) \div a.N
    IN  [i \in 1..(a.N + 1) |-> [j \in 1..(a.N + 1) |->
            Mul(Mul(T(a.mx * X(i)), T(a.my * X(j))), CosPi(Mul(om, tn)))]]

\* The root of the mean of the squared differences of two fields
RmsDiff(u, e) ==
    LET n == Len(u)
        sq == [p \in 1..(n * n) |->
                 LET i == ((p - 1) \div n) + 1
                     j == ((p - 1) % n) + 1
                 IN  (u[i][j] - e[i][j]) * (u[i][j] - e[i][j])]
    IN  ISqrt(SumSeq(sq, n * n) \div (n * n))

EdgesZero(u) ==
    \A i \in 1..Len(u) : \A j \in 1..Len(u) :
        (i = 1 \/ i = Len(u) \/ j = 1 \/ j = Len(u)) => u[i][j] = 0

Entry(D, p, q) == IF q \in DOMAIN D[p] THEN D[p][q] ELSE 0

Symmetric(D) == \A p \in 1..Len(D) : \A q \in 1..Len(D) : Entry(D, p, q) = Entry(D, q, p)

RECURSIVE Pow2(_)
Pow2(i) == IF i <= 0 THEN 1 ELSE 2 * Pow2(i - 1)

InCall == pc \in {"loop", "returned"}

---------------------------------------------------------------------------
(* The claims.                                                             *)

\* C1: a call with N >= 1, Nt >= 1 and store_data = k > 0 returns a snapshot
\* mapping whose keys are exactly 0 and the multiples of k in 1..Nt, and no
\* error sequence.
C1_SnapshotKeys ==
    (pc = "returned" /\ frame.N >= 1 /\ frame.Nt >= 1 /\ frame.store_data > 0) =>
        /\ result.kind = "dict"
        /\ DOMAIN result.data =
              {0} \cup {n \in 1..frame.Nt : n % frame.store_data = 0}
        /\ ~result.hasErrs
        /\ result.errs = <<>>

C1_Witness ==
    /\ pc = "returned"
    /\ frame.N >= 1
    /\ frame.Nt = 3
    /\ frame.store_data = 2
    /\ DOMAIN result.data = {0, 2}

\* C2: a call with N >= 1, Nt >= 1 and store_data = -1 returns the pair of
\* dx and an error sequence of Nt entries, the n-th the root-mean-square
\* difference of the field after n steps and the exact field at n*dt, and no
\* snapshot mapping.
C2_ErrorSequence ==
    (pc = "returned" /\ frame.N >= 1 /\ frame.Nt >= 1 /\ frame.store_data = -1) =>
        /\ result.kind = "tuple"
        /\ result.data = <<>>
        /\ result.h = Scale \div frame.N
        /\ result.hasErrs
        /\ Len(result.errs) = frame.Nt
        /\ \A n \in 1..frame.Nt :
              result.errs[n] = RmsDiff(FieldAtLevel(variant, FrameArgs(frame), n),
                                       ExactField(variant, FrameArgs(frame), n))

C2_Witness ==
    /\ pc = "returned"
    /\ frame.store_data = -1
    /\ frame.N = 3
    /\ frame.Nt = 3
    /\ Len(result.errs) = 3
    /\ result.errs[1] > 0
    /\ result.errs[3] > result.errs[1]

\* C3: in a returned snapshot mapping the value under every key n is the
\* solution field at time level n; under key 0 that is the initial field at
\* t = 0.
C3_SnapshotIsFieldAtLevel ==
    (pc = "returned" /\ frame.N >= 1 /\ frame.Nt >= 1 /\ result.kind = "dict") =>
        \A n \in DOMAIN result.data :
            result.data[n] = FieldAtLevel(variant, FrameArgs(frame), n)

C5_InvalidNeverReturns ==
    ~(pc = "returned" /\ (frame.N <= 0 \/ frame.Nt <= 0))

\* C5, amended: a call with N <= 0 raises before its loop, with no step made
\* and nothing returned; a call with N >= 1 and Nt <= 0 raises nothing, makes
\* no step and returns the mapping that holds key 0 alone, or the pair of dx
\* and an empty error sequence.
C5_InvalidResolutionFails ==
    /\ (pc # "idle" /\ frame.N <= 0) =>
          /\ pc = "raised"
          /\ result.kind = "raise"
          /\ result.exc \in {"ValueError", "ZeroDivisionError"}
          /\ frame.n = 0
    /\ (pc = "returned" /\ frame.N >= 1 /\ frame.Nt <= 0) =>
          /\ frame.n = 0
          /\ \/ result.kind = "dict" /\ DOMAIN result.data = {0}
             \/ result.kind = "tuple" /\ result.h = Scale \div frame.N
                                      /\ result.errs = <<>>

C5_Witness ==
    /\ pc = "returned"
    /\ frame.N = 2
    /\ frame.Nt = 0
    /\ result.kind = "dict"
    /\ DOMAIN result.data = {0}

\* C6: a call whose store_data is neither positive nor -1 returns no mapping
\* and no per-step errors, and a movie's main raises on what it returns.
C6_NoOutput ==
    (pc = "returned" /\ frame.store_data <= 0 /\ frame.store_data # -1) =>
        /\ result.kind # "dict"
        /\ result.data = <<>>
        /\ ~result.hasErrs
        /\ result.errs = <<>>
        /\ NoSnapshots(result)
        /\ movie.status \in {"none", "RuntimeError"}

C6_Witness ==
    /\ pc = "returned"
    /\ frame.store_data \in {0, -2}
    /\ frame.Nt >= 1
    /\ movie.status = "RuntimeError"

\* C7: convergence_rates with m >= 1 levels (and Nt >= 1) makes m calls in
\* error mode, call i at resolution 8*2^i with Nt*2^i steps; it keeps of each
\* the last error and dx, and returns m errors, m spacings and m-1 orders,
\* order i computed from the errors and spacings of levels i-1 and i.
C7_Driver ==
    LET g == conv.given
        LevelArgs(i) == Args(N0 * Pow2(i), g.Nt * Pow2(i), conv.cfl, Scale,
                             conv.mx, conv.my, -1)
    IN  (g.m >= 1 /\ g.Nt >= 1) =>
        /\ conv.at = "calling" =>
              /\ conv.i < g.m
              /\ Len(conv.E) = conv.i
              /\ Len(conv.h) = conv.i
              /\ FrameArgs(frame) = LevelArgs(conv.i)
        /\ (conv.at = "loop" /\ conv.i >= 1) =>
              /\ pc = "returned"
              /\ FrameArgs(frame) = LevelArgs(conv.i - 1)
              /\ Len(result.errs) = frame.Nt
              /\ conv.E[conv.i] = result.errs[frame.Nt]
              /\ conv.h[conv.i] = result.h
        /\ conv.at = "done" =>
              /\ conv.i = g.m
              /\ Len(conv.E) = g.m
              /\ Len(conv.h) = g.m
              /\ Len(conv.r) = g.m - 1
              /\ \A i \in 1..(g.m - 1) :
                    conv.r[i] = Order(conv.E[i], conv.E[i + 1], conv.h[i], conv.h[i + 1])
              /\ \A i \in 1..g.m :
                    \E res \in {FreshResult(variant, LevelArgs(i - 1))} :
                        /\ conv.E[i] = res.errs[Len(res.errs)]
                        /\ conv.h[i] = res.h

C7_Witness ==
    /\ conv.at = "done"
    /\ conv.given.m = 2
    /\ conv.given.Nt = 2
    /\ Len(conv.r) = 1
    /\ frame.N = 16
    /\ frame.Nt = 4
    /\ conv.E[1] # conv.E[2]

\* C8 as stated: the matrix D2 builds is symmetric, in both variants.
C8_Symmetric == InCall => Symmetric(frame.D)

\* C8, amended: the matrix D2 builds is symmetric in the Dirichlet variant for
\* every N >= 1, and in the Neumann variant for N = 1 and no other N.
C8_SymmetricDirichletOnly ==
    InCall => (Symmetric(frame.D) <=> (variant = "Dirichlet" \/ frame.N = 1))

C8_Witness ==
    /\ InCall
    /\ variant = "Neumann"
    /\ frame.N = 2
    /\ Entry(frame.D, 1, 2) = 2
    /\ Entry(frame.D, 2, 1) = 1

\* C9: what a call returns or raises is what the same call returns or raises
\* on a fresh instance, whatever calls the instance has served before.
C9_SameAsFresh ==
    pc \in {"returned", "raised"} => result = FreshResult(variant, FrameArgs(frame))

C9_Witness ==
    /\ pc = "returned"
    /\ calls = 2
    /\ frame.N = 3
    /\ frame.Nt = 3
    /\ frame.mx = 2
    /\ result.kind = "dict"

====
